---- MODULE Spec2Model ----
(***************************************************************************)
(* A model of the School Days GPK unpacker: the keystream XOR, the         *)
(* UTF-16LE name decoder and the name sanitation of GPK::load, the         *)
(* trailer/index pipeline of GPK::load with FileSystem::mountGPK, and the  *)
(* extraction loops of GPK::unpack_all / FileSystem::unpack_all.           *)
(* Bytes are the integers 0..255; a buffer is a sequence of bytes, and     *)
(* byte k of the C++ buffer (0-based) is element k+1 of the sequence.      *)
(***************************************************************************)
EXTENDS Integers, Sequences, FiniteSets, TLC

VARIABLES
    \* test_cipher (test.cpp) : the buffer, its saved copy, the position
    test_data, original, c_pc,
    \* utf16le_to_utf8 and the sanitation block of GPK::load
    n_data, n_len, n_i, n_result, n_reads, n_clean, n_pc,
    \* the archive file on disk; GPK::load's locals and result; the GPK
    \* objects FileSystem holds
    file, compressedData, uncompressedData, entries, loadError, l_pc, gpks,
    \* the cursor of the parse loop of GPK::load and the byte indices of
    \* uncompressedData the loop has read
    pos, p_reads,
    \* FileSystem::unpack_all and GPK::unpack_all: the loop positions, the
    \* state of the package stream, the files written, the console, how the
    \* environment answered the last step, and the exit code of main
    u_pc, u_gpk, u_entry, pkgFail, outFiles, report, u_env, exitCode

cipherVars == <<test_data, original, c_pc>>
nameVars   == <<n_data, n_len, n_i, n_result, n_reads, n_clean, n_pc>>
loadVars   == <<file, compressedData, uncompressedData, entries, loadError,
                 l_pc, gpks, pos, p_reads>>
unpackVars == <<u_pc, u_gpk, u_entry, pkgFail, outFiles, report, u_env,
                 exitCode>>
vars       == <<cipherVars, nameVars, loadVars, unpackVars>>

----------------------------------------------------------------------------
(* Bit operations on naturals, as C++ computes them on unsigned values.    *)

RECURSIVE BitAnd(_, _)
BitAnd(a, b) ==
    IF a = 0 \/ b = 0 THEN 0
    ELSE 2 * BitAnd(a \div 2, b \div 2) + (IF a % 2 = 1 /\ b % 2 = 1 THEN 1 ELSE 0)

RECURSIVE BitOr(_, _)
BitOr(a, b) ==
    IF a = 0 THEN b
    ELSE IF b = 0 THEN a
    ELSE 2 * BitOr(a \div 2, b \div 2) + (IF a % 2 = 1 \/ b % 2 = 1 THEN 1 ELSE 0)

RECURSIVE BitXor(_, _)
BitXor(a, b) ==
    IF a = 0 THEN b
    ELSE IF b = 0 THEN a
    ELSE 2 * BitXor(a \div 2, b \div 2) + ((a + b) % 2)

Shr(x, k) == x \div (2 ^ k)
Shl(x, k) == x * (2 ^ k)

\* static_cast<char>(v) kept as the byte it stores
ToByte(v) == v % 256

----------------------------------------------------------------------------
(* The keystream: CIPHERCODE and the loop  data[i] ^= CIPHERCODE[i % 16].  *)

CIPHERCODE ==
    <<130, 238, 29, 179, 87, 233, 44, 194, 47, 84, 123, 16, 76, 154, 117, 73>>

KeyLen == 16

\* a slip of the pen: |= where ^= is meant
XorByte_or(b, k) == BitOr(b, k)

\* b ^= k, on one byte
XorByte(b, k) == BitXor(b, k)

\* the whole loop over a buffer; i is the C++ index of element i+1
Decrypt(data) ==
    [j \in 1..Len(data) |-> XorByte(data[j], CIPHERCODE[((j - 1) % KeyLen) + 1])]

\* Bounds of the cipher test: buffer lengths 0..MaxCipherLen
MaxCipherLen == 18

\* every byte value meets every key position
CipherSeeds == 0..255

\* the test buffer 0x00, 0x11, 0x22, ... of test_cipher, shifted by a seed
CipherInput(len, seed) == [j \in 1..len |-> (seed + 17 * (j - 1)) % 256]

CipherIdle == test_data = <<>> /\ original = <<>> /\ c_pc = "off"

CipherInit ==
    /\ \E len \in 0..MaxCipherLen, seed \in CipherSeeds :
          test_data = CipherInput(len, seed)
    /\ original = test_data
    /\ c_pc = "plain"

\* test.cpp 76-79: the encrypting loop
Encrypt ==
    /\ c_pc = "plain"
    /\ test_data' = Decrypt(test_data)
    /\ c_pc' = "encrypted"
    /\ UNCHANGED <<original, nameVars, loadVars, unpackVars>>

\* test.cpp 81-84: the same loop again
DecryptAgain ==
    /\ c_pc = "encrypted"
    /\ test_data' = Decrypt(test_data)
    /\ c_pc' = "decrypted"
    /\ UNCHANGED <<original, nameVars, loadVars, unpackVars>>

NameIdle ==
    /\ n_data = <<>> /\ n_len = 0 /\ n_i = 0 /\ n_result = <<>>
    /\ n_reads = {} /\ n_clean = <<>> /\ n_pc = "off"

LoadIdle ==
    /\ file = <<>> /\ compressedData = <<>> /\ uncompressedData = <<>>
    /\ entries = <<>> /\ loadError = "none" /\ l_pc = "off" /\ gpks = <<>>
    /\ pos = 0 /\ p_reads = {}

NoFiles == [q \in {} |-> <<>>]

UnpackIdle ==
    /\ u_pc = "off" /\ u_gpk = 0 /\ u_entry = 0 /\ pkgFail = FALSE
    /\ outFiles = NoFiles /\ report = <<>> /\ u_env = "none" /\ exitCode = 0

CipherNext == Encrypt \/ DecryptAgain

InitCipher == CipherInit /\ NameIdle /\ LoadIdle /\ UnpackIdle

SpecCipher == InitCipher /\ [][CipherNext]_vars

----------------------------------------------------------------------------
\* C9: for every buffer, of any length, applying the keystream XOR twice
\* gives the buffer back, and each application keeps the buffer's length.
C9_RoundTrip ==
    /\ c_pc \in {"encrypted", "decrypted"} => Len(test_data) = Len(original)
    /\ c_pc = "decrypted" => test_data = original

\* a buffer longer than the key, not a multiple of 16, after both passes
C9_Witness ==
    /\ c_pc = "decrypted"
    /\ Len(test_data) = 18
    /\ test_data = original
    /\ test_data[17] = 16

----------------------------------------------------------------------------
(* GPK::utf16le_to_utf8 (gpk.cpp 19-61).  data is the memory the pointer  *)
(* addresses: the 2*length_in_chars bytes of the name and what follows    *)
(* them in the enclosing buffer.                                          *)

\* data[k] | (data[k + 1] << 8), k a C++ byte index
ReadU16(data, k) == BitOr(data[k + 1], Shl(data[k + 2], 8))

IsHighSurrogate(u) == u >= 55296 /\ u <= 56319
IsLowSurrogate(u)  == u >= 56320 /\ u <= 57343

\* an off-by-one in the look-ahead guard
HasNext_le(i, length_in_chars) == i + 1 <= length_in_chars

\* gpk.cpp 29: if (i + 1 < length_in_chars)
HasNext(i, length_in_chars) == i + 1 < length_in_chars

\* gpk.cpp 33-39
EncodePair(hi, lo) ==
    LET codepoint == 65536 + Shl(BitAnd(hi, 1023), 10) + BitAnd(lo, 1023)
    IN  << ToByte(BitOr(240, Shr(codepoint, 18))),
           ToByte(BitOr(128, BitAnd(Shr(codepoint, 12), 63))),
           ToByte(BitOr(128, BitAnd(Shr(codepoint, 6), 63))),
           ToByte(BitOr(128, BitAnd(codepoint, 63))) >>

\* gpk.cpp 48-57
EncodeBmp(u) ==
    IF u < 128 THEN << ToByte(u) >>
    ELSE IF u < 2048 THEN
        << ToByte(BitOr(192, Shr(u, 6))), ToByte(BitOr(128, BitAnd(u, 63))) >>
    ELSE
        << ToByte(BitOr(224, Shr(u, 12))),
           ToByte(BitOr(128, BitAnd(Shr(u, 6), 63))),
           ToByte(BitOr(128, BitAnd(u, 63))) >>

\* one iteration of the for loop at index i: the bytes appended, the value
\* of i the next iteration starts from, and the byte indices read
Utf16Iter(data, i, length_in_chars) ==
    LET utf16_char == ReadU16(data, i * 2)
        looks      == IsHighSurrogate(utf16_char) /\ HasNext(i, length_in_chars)
        low        == IF looks THEN ReadU16(data, (i + 1) * 2) ELSE 0
        rd         == {i * 2, i * 2 + 1} \cup
                      (IF looks THEN {(i + 1) * 2, (i + 1) * 2 + 1} ELSE {})
    IN  IF looks /\ IsLowSurrogate(low)
        THEN [bytes |-> EncodePair(utf16_char, low), next |-> i + 2, reads |-> rd]
        ELSE [bytes |-> EncodeBmp(utf16_char), next |-> i + 1, reads |-> rd]

RECURSIVE Utf16From(_, _, _)
Utf16From(data, i, length_in_chars) ==
    IF i >= length_in_chars THEN <<>>
    ELSE LET r == Utf16Iter(data, i, length_in_chars)
         IN  r.bytes \o Utf16From(data, r.next, length_in_chars)

\* the whole function
utf16le_to_utf8(data, length_in_chars) == Utf16From(data, 0, length_in_chars)

----------------------------------------------------------------------------
(* The sanitation block of GPK::load (gpk.cpp 168-186).                   *)

\* a byte of the std::string seen as a (signed) char
AsChar(b) == IF b >= 128 THEN b - 256 ELSE b

RECURSIVE FindNul(_, _)
FindNul(s, j) ==
    IF j > Len(s) THEN j ELSE IF s[j] = 0 THEN j ELSE FindNul(s, j + 1)

\* gpk.cpp 169: filename.erase(std::find(begin, end, '\0'), end)
EraseFromNul(s) == SubSeq(s, 1, FindNul(s, 1) - 1)

HostileChars == {60, 62, 58, 34, 124, 63, 42}

\* gpk.cpp 174-175: the first test of the loop body
IsPlain(c) == c >= 32 /\ c <= 126 /\ c \notin HostileChars

RECURSIVE CleanFrom(_, _)
CleanFrom(s, j) ==
    IF j > Len(s) THEN <<>>
    ELSE LET c == AsChar(s[j])
         IN  (IF IsPlain(c) THEN <<s[j]>>
              ELSE IF c = 92 \/ c = 47 THEN <<47>>
              ELSE <<>>) \o CleanFrom(s, j + 1)

\* gpk.cpp 168-180: from the decoded filename to cleanFilename
cleanFilename(filename) == CleanFrom(EraseFromNul(filename), 1)

----------------------------------------------------------------------------
(* Decoding and sanitising one name, on its own.                          *)

\* Bound of the name check: names of 0..MaxNameLen code units
MaxNameLen == 2

\* 'A', '\', '/', ':', NUL, a control, DEL, the 1/2/3-byte borders, a
\* hiragana, the surrogate borders, the last unit
NameUnits ==
    {65, 92, 47, 58, 0, 31, 127, 128, 2047, 2048, 12354,
     55296, 56319, 56320, 57343, 65535}

\* the code unit that follows the name in memory
TrailUnits == {65, 56320}

UnitBytes(u) == << u % 256, u \div 256 >>

RECURSIVE UnitsBytes(_)
UnitsBytes(us) ==
    IF us = <<>> THEN <<>> ELSE UnitBytes(Head(us)) \o UnitsBytes(Tail(us))

NameInit ==
    /\ n_len \in 0..MaxNameLen
    /\ \E us \in [1..n_len -> NameUnits], t \in TrailUnits :
          n_data = UnitsBytes(us) \o UnitBytes(t)
    /\ n_i = 0 /\ n_result = <<>> /\ n_reads = {}
    /\ n_clean = <<>> /\ n_pc = "decode"

\* one pass of the loop of utf16le_to_utf8
Utf16Step ==
    /\ n_pc = "decode" /\ n_i < n_len
    /\ LET r == Utf16Iter(n_data, n_i, n_len)
       IN  /\ n_result' = n_result \o r.bytes
           /\ n_i' = r.next
           /\ n_reads' = n_reads \cup r.reads
    /\ UNCHANGED <<n_data, n_len, n_clean, n_pc, cipherVars, loadVars,
                   unpackVars>>

\* the loop is left, the name returned and sanitised
SanitizeName ==
    /\ n_pc = "decode" /\ n_i >= n_len
    /\ n_clean' = cleanFilename(n_result)
    /\ n_pc' = "cleaned"
    /\ UNCHANGED <<n_data, n_len, n_i, n_result, n_reads, cipherVars,
                   loadVars, unpackVars>>

NameNext == Utf16Step \/ SanitizeName

InitName == NameInit /\ CipherIdle /\ LoadIdle /\ UnpackIdle

SpecName == InitName /\ [][NameNext]_vars

----------------------------------------------------------------------------
\* the code unit at index i of the name under conversion
C10_Unit(i) == n_data[2 * i + 1] + 256 * n_data[2 * i + 2]

C10_IsCont(b) == b >= 128 /\ b <= 191

\* the code point a well-formed UTF-8 sequence of 2, 3 or 4 bytes stands for
C10_Value(b) ==
    IF Len(b) = 2 /\ b[1] >= 192 /\ b[1] <= 223 /\ C10_IsCont(b[2])
    THEN (b[1] - 192) * 64 + (b[2] - 128)
    ELSE IF Len(b) = 3 /\ b[1] >= 224 /\ b[1] <= 239
            /\ C10_IsCont(b[2]) /\ C10_IsCont(b[3])
    THEN (b[1] - 224) * 4096 + (b[2] - 128) * 64 + (b[3] - 128)
    ELSE IF Len(b) = 4 /\ b[1] >= 240 /\ b[1] <= 247
            /\ C10_IsCont(b[2]) /\ C10_IsCont(b[3]) /\ C10_IsCont(b[4])
    THEN (b[1] - 240) * 262144 + (b[2] - 128) * 4096 + (b[3] - 128) * 64
         + (b[4] - 128)
    ELSE -1

C10_Step ==
    (n_pc = "decode" /\ n_i < n_len /\ vars' # vars) =>
        LET u    == C10_Unit(n_i)
            more == n_i + 1 < n_len
            lo   == IF more THEN C10_Unit(n_i + 1) ELSE 0
            pair == /\ u >= 55296 /\ u <= 56319
                    /\ more /\ lo >= 56320 /\ lo <= 57343
            app  == SubSeq(n_result', Len(n_result) + 1, Len(n_result'))
        IN  /\ SubSeq(n_result', 1, Len(n_result)) = n_result
            /\ pair =>
                 /\ Len(app) = 4
                 /\ C10_Value(app) = 65536 + (u % 1024) * 1024 + (lo % 1024)
                 /\ n_i' = n_i + 2
            /\ ~pair =>
                 /\ n_i' = n_i + 1
                 /\ u < 128 => app = <<u>>
                 /\ (u >= 128 /\ u < 2048) => Len(app) = 2 /\ C10_Value(app) = u
                 /\ u >= 2048 => Len(app) = 3 /\ C10_Value(app) = u
            /\ \A k \in n_reads' : k >= 0 /\ k < 2 * n_len

\* C10: each pass of utf16le_to_utf8 appends 1 byte (the unit itself) for a
\* unit below 0x80, 2 bytes below 0x800, 3 bytes for any other unpaired unit
\* (an unpaired or trailing high surrogate included), and for a high
\* surrogate directly followed by a low one a single 4-byte sequence of the
\* code point 0x10000 + ((hi & 0x3FF) << 10) + (lo & 0x3FF), consuming both
\* units; no byte at index 2n or beyond is read.
C10_Utf16 == [][C10_Step]_vars

\* 'A' then a high surrogate as the last unit, a low surrogate next in memory
C10_Witness ==
    /\ n_len = 2
    /\ n_data = <<65, 0, 0, 216, 0, 220>>
    /\ n_i = 2
    /\ n_result = <<65, 237, 160, 128>>
    /\ n_reads = {0, 1, 2, 3}

\* C1: no backslash is left in a sanitised name, and every '\' or '/' of the
\* decoded name is a '/' of the sanitised one.
C1_NoBackslash ==
    n_pc = "cleaned" =>
        /\ \A k \in 1..Len(n_clean) : n_clean[k] # 92
        /\ (\A k \in 1..Len(n_result) : n_result[k] # 0) =>
              Len(SelectSeq(n_clean, LAMBDA c : c = 47))
                = Len(SelectSeq(n_result, LAMBDA c : c = 92 \/ c = 47))

C8_IsDropped(c) == c < 32 \/ c = 127 \/ c \in {60, 62, 58, 34, 124, 63, 42}

C8_Slash(s) == [k \in 1..Len(s) |-> IF s[k] = 92 THEN 47 ELSE s[k]]

\* C8: sanitation drops the control characters and < > : " | ? * and nothing
\* else: up to the rewriting of separators, the sanitised name is the decoded
\* name without those characters, in order.
\* (Names holding a C1 control, U+0080..U+009F, are left out of the statement:
\* whether "control characters" covers them is not said.)
C8_DropsOnlyHostile ==
    (/\ n_pc = "cleaned"
     /\ \A i \in 0..(n_len - 1) : C10_Unit(i) < 128 \/ C10_Unit(i) > 159) =>
        C8_Slash(n_clean)
          = C8_Slash(SelectSeq(n_result, LAMBDA c : ~C8_IsDropped(c)))

----------------------------------------------------------------------------
(* Fixed-width integers in buffers.                                        *)

LE16(v) == << v % 256, (v \div 256) % 256 >>
LE32(v) == << v % 256, (v \div 256) % 256, (v \div 65536) % 256,
              (v \div 16777216) % 256 >>
BE32(v) == << (v \div 16777216) % 256, (v \div 65536) % 256,
              (v \div 256) % 256, v % 256 >>

\* a uint32_t read from 4 bytes at C++ index k, on the little-endian host
ReadLE32(buf, k) ==
    buf[k + 1] + 256 * buf[k + 2] + 65536 * buf[k + 3] + 16777216 * buf[k + 4]

\* the tail of a buffer from C++ index k: what &buf[k] addresses
From(buf, k) == SubSeq(buf, k + 1, Len(buf))

Zeros(n) == [j \in 1..n |-> 0]

----------------------------------------------------------------------------
(* zlib's uncompress(), as GPK::decompress_data calls it (gpk.cpp 86-88).  *)
(* Streams are zlib-wrapped deflate streams of one final stored block:     *)
(* CMF FLG | 01 LEN NLEN data | ADLER32.  A block of any other kind is     *)
(* reported as corrupt; the archives of this model hold none.              *)

Z_OK         == 0
Z_DATA_ERROR == 0 - 3
Z_BUF_ERROR  == 0 - 5

AdlerBase == 65521

\* the sum of (1 + k * (n - j)) * data[j] over j in lo..hi, by halves
RECURSIVE WeightedSum(_, _, _, _, _)
WeightedSum(data, lo, hi, k, n) ==
    IF lo > hi THEN 0
    ELSE IF lo = hi THEN (1 + k * (n - lo)) * data[lo]
    ELSE LET mid == (lo + hi) \div 2
         IN  WeightedSum(data, lo, mid, k, n)
             + WeightedSum(data, mid + 1, hi, k, n)

\* s1 is 1 plus the bytes, s2 the sum of the successive values of s1, both
\* modulo 65521; the checksum is s2 * 65536 + s1, here as the 4 bytes that
\* end the stream, most significant first
Adler32(data) ==
    LET n  == Len(data)
        s1 == (1 + WeightedSum(data, 1, n, 0, n)) % AdlerBase
        s2 == (n + WeightedSum(data, 1, n, 1, n)) % AdlerBase
    IN  << s2 \div 256, s2 % 256, s1 \div 256, s1 % 256 >>

\* what uncompress returns when the input ends before the stream does:
\* Z_BUF_ERROR if the destination is full, Z_DATA_ERROR otherwise
Incomplete(produced, destLen) ==
    [ret |-> IF produced = destLen THEN Z_BUF_ERROR ELSE Z_DATA_ERROR,
     out |-> <<>>]

\* ret is the return code, out the first dest_len bytes of the destination
Uncompress(src, destLen) ==
    IF Len(src) < 2 THEN Incomplete(0, destLen)
    ELSE IF \/ (src[1] * 256 + src[2]) % 31 # 0
            \/ src[1] % 16 # 8 \/ src[1] \div 16 > 7
            \/ (src[2] \div 32) % 2 = 1
    THEN [ret |-> Z_DATA_ERROR, out |-> <<>>]
    ELSE IF Len(src) < 3 THEN Incomplete(0, destLen)
    ELSE IF src[3] % 8 # 1 THEN [ret |-> Z_DATA_ERROR, out |-> <<>>]
    ELSE IF Len(src) < 7 THEN Incomplete(0, destLen)
    ELSE LET len  == src[4] + 256 * src[5]
             nlen == src[6] + 256 * src[7]
         IN  IF len + nlen # 65535 THEN [ret |-> Z_DATA_ERROR, out |-> <<>>]
             ELSE IF len > destLen THEN [ret |-> Z_BUF_ERROR, out |-> <<>>]
             ELSE IF Len(src) < 7 + len + 4
                  THEN Incomplete(IF Len(src) - 7 < len THEN Len(src) - 7
                                  ELSE len, destLen)
             ELSE LET data == SubSeq(src, 8, 7 + len)
                  IN  IF SubSeq(src, 8 + len, 11 + len) # Adler32(data)
                      THEN [ret |-> Z_DATA_ERROR, out |-> <<>>]
                      ELSE [ret |-> Z_OK, out |-> data]

----------------------------------------------------------------------------
(* GPK::decompress_data (gpk.cpp 64-100).                                  *)

PrefixLen == 4

\* above every length of this model; what a declared size of 2^31 or more
\* is counted as
HugeSize == 2147483647

\* gpk.cpp 74-77: the big-endian prefix.  Sizes of 2^31 and more are only
\* ever compared with 0 and with lengths below 2^16, and are kept as HugeSize.
DeclaredSize(compressed_data) ==
    IF compressed_data[1] >= 128 THEN HugeSize
    ELSE Shl(compressed_data[1], 24) + Shl(compressed_data[2], 16)
         + Shl(compressed_data[3], 8) + compressed_data[4]

\* thrown is TRUE when the function leaves by an exception
decompress_data(compressed_data) ==
    IF Len(compressed_data) < PrefixLen
    THEN [thrown |-> FALSE, data |-> compressed_data]
    ELSE LET uncompressed_size == DeclaredSize(compressed_data)
         IN  IF uncompressed_size = 0
             THEN [thrown |-> TRUE, data |-> <<>>]
             ELSE LET r == Uncompress(From(compressed_data, PrefixLen),
                                      uncompressed_size)
                  IN  IF r.ret # Z_OK
                      THEN [thrown |-> TRUE, data |-> <<>>]
                      ELSE [thrown |-> FALSE, data |-> r.out]

----------------------------------------------------------------------------
(* The trailer and the index (gpk.h 8-39, gpk.cpp 111-200).                *)

\* "STKFile0PIDX"
GPK_TAILER_IDENT0 == <<83, 84, 75, 70, 105, 108, 101, 48, 80, 73, 68, 88>>
\* "STKFile0PACKFILE"
GPK_TAILER_IDENT1 ==
    <<83, 84, 75, 70, 105, 108, 101, 48, 80, 65, 67, 75, 70, 73, 76, 69>>

SizeofGPKsig         == 32
SizeofGPKEntryHeader == 23
SizeofU16            == 2

\* a comparison that looks at the first byte only
Strncmp_first(lit, buf, n) == IF lit[1] = buf[1] THEN 0 ELSE 1

RECURSIVE StrncmpFrom(_, _, _, _)
StrncmpFrom(a, b, k, n) ==
    IF k > n THEN 0
    ELSE IF a[k] # b[k] THEN (IF a[k] < b[k] THEN 0 - 1 ELSE 1)
    ELSE IF a[k] = 0 THEN 0
    ELSE StrncmpFrom(a, b, k + 1, n)

\* strncmp(lit, buf, n): lit a literal (its terminating NUL added), buf a
\* char array of at least n bytes
Strncmp(lit, buf, n) == StrncmpFrom(lit \o <<0>>, buf, 1, n)

\* gpk.cpp 121-122, on the 32 bytes of the trailer
SignatureOk(sign) ==
    /\ Strncmp(GPK_TAILER_IDENT0, SubSeq(sign, 1, 12),
               Len(GPK_TAILER_IDENT0)) = 0
    /\ Strncmp(GPK_TAILER_IDENT1, SubSeq(sign, 17, 32),
               Len(GPK_TAILER_IDENT1)) = 0

\* gpk.cpp 128: the position sought before the index is read
IndexStart(fileSize, pidx_length) == fileSize - SizeofGPKsig - pidx_length

\* gpk.cpp 128-130: seekg, a zero-filled vector of pidx_length bytes, read.
\* A seek to a position before the start of the file fails, the stream is
\* left in a failed state and read() stores nothing.
ReadIndex(f, pidx_length) ==
    LET start == IndexStart(Len(f), pidx_length)
    IN  IF start < 0 THEN Zeros(pidx_length)
        ELSE SubSeq(f, start + 1, start + pidx_length)

HeaderOffset(h)   == ReadLE32(h, 6)
HeaderComprlen(h) == ReadLE32(h, 10)

\* the byte indices utf16le_to_utf8 reads from index i on
RECURSIVE Utf16Reads(_, _, _)
Utf16Reads(data, i, length_in_chars) ==
    IF i >= length_in_chars THEN {}
    ELSE LET r == Utf16Iter(data, i, length_in_chars)
         IN  r.reads \cup Utf16Reads(data, r.next, length_in_chars)

\* a record without a usable name that is not stepped over
SkipHeader_none(at) == at

\* gpk.cpp 187-188: pos += sizeof(GPKEntryHeader); continue;
SkipHeader(at) == at + SizeofGPKEntryHeader

\* gpk.cpp 151-196: one pass of the body of the parse loop with the cursor
\* at: whether the pass leaves the loop by break, the cursor after it, the
\* entry pushed (a sequence of none or one) and the byte indices read
ParseIter(buf, at) ==
    IF at + SizeofU16 > Len(buf)
    THEN [stop |-> TRUE, pos |-> at, add |-> <<>>, reads |-> {}]
    ELSE
      LET filename_len == ReadU16(buf, at)
          pos1         == at + SizeofU16
          rd1          == at .. (at + SizeofU16 - 1)
      IN
      IF filename_len = 0
      THEN [stop |-> TRUE, pos |-> pos1, add |-> <<>>, reads |-> rd1]
      ELSE IF pos1 + filename_len * 2 > Len(buf)
      THEN [stop |-> TRUE, pos |-> pos1, add |-> <<>>, reads |-> rd1]
      ELSE
        LET filename == utf16le_to_utf8(From(buf, pos1), filename_len)
            pos2     == pos1 + filename_len * 2
            clean    == cleanFilename(filename)
            rd2      == rd1 \cup
                        { pos1 + k :
                            k \in Utf16Reads(From(buf, pos1), 0, filename_len) }
        IN
        IF clean = <<>>
        THEN [stop |-> FALSE, pos |-> SkipHeader(pos2), add |-> <<>>,
              reads |-> rd2]
        ELSE IF pos2 + SizeofGPKEntryHeader > Len(buf)
        THEN [stop |-> TRUE, pos |-> pos2, add |-> <<>>, reads |-> rd2]
        ELSE [stop  |-> FALSE,
              pos   |-> pos2 + SizeofGPKEntryHeader,
              add   |-> << [name   |-> clean,
                            header |-> SubSeq(buf, pos2 + 1,
                                              pos2 + SizeofGPKEntryHeader)] >>,
              reads |-> rd2 \cup (pos2 .. (pos2 + SizeofGPKEntryHeader - 1))]

\* gpk.cpp 148-197: the parse loop, from cursor at with the entries so far
RECURSIVE ParseFrom(_, _, _)
ParseFrom(buf, at, acc) ==
    IF ~(at < Len(buf)) THEN [entries |-> acc, pos |-> at]
    ELSE LET r == ParseIter(buf, at)
         IN  IF r.stop THEN [entries |-> acc, pos |-> r.pos]
             ELSE ParseFrom(buf, r.pos, acc \o r.add)

\* GPK::load (gpk.cpp 102-201) on a file of bytes f; opened is whether the
\* ifstream could be opened.  ok is the value returned.
load(f, opened) ==
    LET none == [ok |-> FALSE, error |-> "open", compressedData |-> <<>>,
                 uncompressedData |-> <<>>, entries |-> <<>>, pos |-> 0]
    IN
    IF ~opened THEN none
    ELSE IF Len(f) < SizeofGPKsig
    THEN [none EXCEPT !.error = "signature"]
    ELSE
      LET sign == From(f, Len(f) - SizeofGPKsig)
      IN
      IF ~SignatureOk(sign) THEN [none EXCEPT !.error = "signature"]
      ELSE
        LET pidx_length == ReadLE32(sign, 12)
            decrypted   == Decrypt(ReadIndex(f, pidx_length))
            d           == decompress_data(decrypted)
        IN
        IF d.thrown
        THEN [none EXCEPT !.error = "decompress",
                          !.compressedData = decrypted]
        ELSE LET parsed == ParseFrom(d.data, 0, <<>>)
             IN  [ok |-> TRUE, error |-> "none",
                  compressedData |-> decrypted, uncompressedData |-> d.data,
                  entries |-> parsed.entries, pos |-> parsed.pos]

----------------------------------------------------------------------------
(* Archive files, as a packer lays them out: the payload area, the index   *)
(* blob (size prefix, zlib stream, keystream), the trailer.                *)

Payload == <<170, 187, 204, 221>>

\* the fields of GPKEntryHeader in order, packed
HeaderBytes(offset, comprlen) ==
    LE16(0) \o LE16(1) \o LE16(0) \o LE32(offset) \o LE32(comprlen)
    \o <<32, 32, 32, 32>> \o LE32(0) \o <<0>>

RecordBytes(rec) ==
    LE16(Len(rec.units)) \o UnitsBytes(rec.units)
    \o HeaderBytes(rec.offset, rec.comprlen)

RECURSIVE RecordsBytes(_)
RecordsBytes(recs) ==
    IF recs = <<>> THEN <<>>
    ELSE RecordBytes(Head(recs)) \o RecordsBytes(Tail(recs))

\* a zlib stream of one final stored block
ZStored(data) ==
    <<120, 1, 1>> \o LE16(Len(data)) \o LE16(65535 - Len(data)) \o data
    \o Adler32(data)

TrailerBytes(sig0, pidx_length, sig1) == sig0 \o LE32(pidx_length) \o sig1

\* Bound of the load check: indexes of 0..MaxRecords records
MaxRecords == 2

\* "a" and ":" (which sanitises to nothing)
LoadNames == { <<97>>, <<58>> }

\* a payload range inside the file, and one past its end
LoadRanges == { <<0, 3>>, <<1000, 2>> }

LoadRecords ==
    { [units |-> u, offset |-> r[1], comprlen |-> r[2]] :
          u \in LoadNames, r \in LoadRanges }

LoadIndexes ==
    UNION { [1..n -> LoadRecords] : n \in 0..MaxRecords }

\* with and without the end-of-entries sentinel
LoadTails == { <<>>, <<0, 0>> }

\* how the archive departs from a well-formed one
Variants ==
    { [kind |-> k, at |-> 0, to |-> 0] :
          k \in {"good", "size_zero", "size_more", "size_less", "bad_adler",
                 "len_plus", "len_over"} }
    \cup { [kind |-> "short", at |-> n, to |-> 0] : n \in 0..3 }
    \cup { [kind |-> "sig0", at |-> p, to |-> t] : p \in 1..12, t \in 0..1 }
    \cup { [kind |-> "sig1", at |-> p, to |-> t] : p \in 1..16, t \in 0..1 }

\* byte p of a signature set to NUL (to = 0) or to the next byte value
Flip(sig, p, to) ==
    [sig EXCEPT ![p] = IF to = 0 THEN 0 ELSE (sig[p] + 1) % 256]

BuildFile(recs, tail, v) ==
    LET index  == RecordsBytes(recs) \o tail
        size   == CASE v.kind = "size_zero" -> 0
                    [] v.kind = "size_more" -> Len(index) + 1
                    [] v.kind = "size_less" -> Len(index) - 1
                    [] OTHER -> Len(index)
        stream == IF v.kind = "bad_adler"
                  THEN LET z == ZStored(index)
                       IN  [z EXCEPT ![Len(z)] = (z[Len(z)] + 1) % 256]
                  ELSE ZStored(index)
        whole  == BE32(size) \o stream
        blob   == IF v.kind = "short" THEN SubSeq(whole, 1, v.at) ELSE whole
        len    == CASE v.kind = "len_plus" -> Len(blob) + Len(Payload)
                    [] v.kind = "len_over" -> Len(blob) + Len(Payload) + 1
                    [] OTHER -> Len(blob)
        sig0   == IF v.kind = "sig0"
                  THEN Flip(GPK_TAILER_IDENT0, v.at, v.to)
                  ELSE GPK_TAILER_IDENT0
        sig1   == IF v.kind = "sig1"
                  THEN Flip(GPK_TAILER_IDENT1, v.at, v.to)
                  ELSE GPK_TAILER_IDENT1
    IN  Payload \o Decrypt(blob) \o TrailerBytes(sig0, len, sig1)

\* files too short to hold a trailer
TinyFiles == { <<>>, SubSeq(GPK_TAILER_IDENT1, 1, 5) }

LoadInit ==
    /\ \/ \E recs \in LoadIndexes, tail \in LoadTails, v \in Variants :
             /\ v.kind = "size_less" => Len(recs) > 0 \/ tail # <<>>
             /\ file = BuildFile(recs, tail, v)
       \/ file \in TinyFiles
    /\ compressedData = <<>> /\ uncompressedData = <<>> /\ entries = <<>>
    /\ loadError = "none" /\ l_pc = "ready" /\ gpks = <<>>
    /\ pos = 0 /\ p_reads = {}

\* FileSystem::mountGPK (filesystem.cpp 65-72) with the GPK::load it calls
mountGPK ==
    /\ l_pc = "ready"
    /\ \E opened \in BOOLEAN :
          LET r == load(file, opened)
          IN  /\ compressedData' = r.compressedData
              /\ uncompressedData' = r.uncompressedData
              /\ entries' = r.entries
              /\ loadError' = r.error
              /\ pos' = r.pos
              /\ gpks' = IF r.ok
                         THEN Append(gpks, [file |-> file, entries |-> r.entries])
                         ELSE gpks
    /\ l_pc' = "done"
    /\ UNCHANGED <<file, p_reads, cipherVars, nameVars, unpackVars>>

LoadNext == mountGPK

InitLoad == LoadInit /\ CipherIdle /\ NameIdle /\ UnpackIdle

SpecLoad == InitLoad /\ [][LoadNext]_vars

----------------------------------------------------------------------------
C4_Sig0 == SubSeq(file, Len(file) - 31, Len(file) - 20)
C4_Sig1 == SubSeq(file, Len(file) - 15, Len(file))
C4_L    == ReadLE32(file, Len(file) - 20)

C4_Loaded == l_pc = "done" /\ loadError # "open" /\ Len(file) >= 32

\* the trailer carries both signatures: load passes validation and its
\* index blob is the bytes [file_len-32-L, file_len-32) of the file
C4_Accepts ==
    /\ loadError # "signature"
    /\ 32 + C4_L <= Len(file)
    /\ Decrypt(compressedData)
         = SubSeq(file, Len(file) - 32 - C4_L + 1, Len(file) - 32)

\* a signature with a changed byte: bad signature, nothing mounted
C4_Rejects ==
    (C4_Sig0 # GPK_TAILER_IDENT0 \/ C4_Sig1 # GPK_TAILER_IDENT1) =>
        loadError = "signature" /\ gpks = <<>>

\* C4 as stated: every file whose last 32 bytes carry the two signatures and
\* pidx_length = L passes validation, with the index blob read from
\* [file_len-32-L, file_len-32); a changed signature byte is a bad signature.
C4_AsStated ==
    C4_Loaded =>
        /\ (C4_Sig0 = GPK_TAILER_IDENT0 /\ C4_Sig1 = GPK_TAILER_IDENT1) =>
              C4_Accepts
        /\ C4_Rejects

\* C4, amended: the same, for the files that hold the range, 32 + L <= file_len.
C4_TrailerValidation ==
    C4_Loaded =>
        /\ (/\ C4_Sig0 = GPK_TAILER_IDENT0 /\ C4_Sig1 = GPK_TAILER_IDENT1
            /\ 32 + C4_L <= Len(file)) => C4_Accepts
        /\ C4_Rejects

\* a well-formed archive of one entry is mounted, its index read in place
C4_Witness ==
    /\ C4_Loaded /\ loadError = "none"
    /\ C4_Sig0 = GPK_TAILER_IDENT0 /\ C4_Sig1 = GPK_TAILER_IDENT1
    /\ C4_L > 16 /\ 32 + C4_L + Len(Payload) = Len(file)
    /\ Len(entries) = 1 /\ Len(gpks) = 1

\* C2: an index blob shorter than the 4-byte size prefix is a decode error,
\* and load rejects the archive: nothing is mounted.
C2_ShortBlobRejected ==
    (/\ l_pc = "done" /\ loadError \notin {"open", "signature"}
     /\ Len(compressedData) < 4) =>
        loadError = "decompress" /\ gpks = <<>>

\* C3: when decompress_data succeeds on a blob of at least 4 bytes, the
\* buffer it returns has exactly the length the big-endian prefix declares.
C3_ExactDeclaredSize ==
    (l_pc = "done" /\ loadError = "none" /\ Len(compressedData) >= 4) =>
        Len(uncompressedData)
          = compressedData[1] * 16777216 + compressedData[2] * 65536
            + compressedData[3] * 256 + compressedData[4]

----------------------------------------------------------------------------
(* Extraction: main (main.cpp 52-59), FileSystem::unpack_all              *)
(* (filesystem.cpp 28-34) and GPK::unpack_all (gpk.cpp 217-253).          *)
(* The mounted archives carry different names, so that archive g writes   *)
(* under a directory of its own: an output path is <<g, entry name>>.     *)

\* Bounds of the extraction check
MaxArchives == 2
MaxEntries  == 2

\* "a" and "b"
UnpackNames == { <<97>>, <<98>> }

UnpackRecords ==
    { [units |-> u, offset |-> r[1], comprlen |-> r[2]] :
          u \in UnpackNames, r \in LoadRanges }

UnpackIndexes == UNION { [1..n -> UnpackRecords] : n \in 1..MaxEntries }

\* the GPK objects FileSystem holds once these archives are mounted
MountedArchives ==
    { LET f == BuildFile(recs, <<0, 0>>, [kind |-> "good", at |-> 0, to |-> 0])
      IN  [file |-> f, entries |-> load(f, TRUE).entries] :
          recs \in UnpackIndexes }

UnpackInit ==
    /\ \E n \in 1..MaxArchives : gpks \in [1..n -> MountedArchives]
    /\ file = <<>> /\ compressedData = <<>> /\ uncompressedData = <<>>
    /\ entries = <<>> /\ loadError = "none" /\ l_pc = "off"
    /\ pos = 0 /\ p_reads = {}
    /\ u_pc = "fs_loop" /\ u_gpk = 1 /\ u_entry = 0 /\ pkgFail = FALSE
    /\ outFiles = NoFiles /\ report = <<>> /\ u_env = "none" /\ exitCode = 0

\* gpk.cpp 237-239: seekg, a zero-filled vector of comprlen bytes, read.
\* On a stream already failed, seekg and read do nothing.  A read that finds
\* fewer bytes than asked stores what it finds and fails the stream.
ReadPayload(f, failed, offset, comprlen) ==
    IF failed THEN [buffer |-> Zeros(comprlen), failed |-> TRUE]
    ELSE LET avail == IF offset >= Len(f) THEN 0 ELSE Len(f) - offset
             got   == IF comprlen <= avail THEN comprlen ELSE avail
         IN  [buffer |-> SubSeq(f, offset + 1, offset + got)
                         \o Zeros(comprlen - got),
              failed |-> got < comprlen]

WriteFile(files, path, content) ==
    [q \in (DOMAIN files) \cup {path} |->
        IF q = path THEN content ELSE files[q]]

\* the exception leaves GPK::unpack_all and FileSystem::unpack_all and is
\* caught in main, which returns 1
Thrown(j) ==
    /\ u_pc' = "aborted"
    /\ exitCode' = 1
    /\ report' = Append(report, [gpk |-> u_gpk, entry |-> j,
                                 msg |-> "Error during extraction"])

\* filesystem.cpp 29-32 and gpk.cpp 218-225: the next archive is taken, its
\* package opened and its output directory created
BeginArchive ==
    /\ u_pc = "fs_loop" /\ u_gpk <= Len(gpks)
    /\ \E env \in {"ok", "open_fail", "dir_fail"} :
          /\ u_env' = env
          /\ CASE env = "open_fail" ->
                    /\ report' = Append(report,
                          [gpk |-> u_gpk, entry |-> 0,
                           msg |-> "Failed to open package for unpacking"])
                    /\ u_gpk' = u_gpk + 1
                    /\ UNCHANGED <<u_pc, u_entry, pkgFail, exitCode>>
               [] env = "dir_fail" ->
                    /\ Thrown(0)
                    /\ UNCHANGED <<u_gpk, u_entry, pkgFail>>
               [] OTHER ->
                    /\ u_pc' = "gpk_loop"
                    /\ u_entry' = 1
                    /\ pkgFail' = FALSE
                    /\ UNCHANGED <<u_gpk, report, exitCode>>
    /\ UNCHANGED <<outFiles, cipherVars, nameVars, loadVars>>

\* gpk.cpp 227-250: one pass of the loop over the entries
ExtractEntry ==
    /\ u_pc = "gpk_loop" /\ u_entry <= Len(gpks[u_gpk].entries)
    /\ LET entry == gpks[u_gpk].entries[u_entry]
           path  == <<u_gpk, entry.name>>
           r     == ReadPayload(gpks[u_gpk].file, pkgFail,
                                HeaderOffset(entry.header),
                                HeaderComprlen(entry.header))
       IN  \E env \in {"ok", "dir_fail", "open_fail", "write_fail"} :
              /\ u_env' = env
              /\ CASE env = "dir_fail" ->
                        /\ Thrown(u_entry)
                        /\ UNCHANGED <<u_entry, pkgFail, outFiles>>
                   [] env = "open_fail" ->
                        /\ report' = Append(report,
                              [gpk |-> u_gpk, entry |-> u_entry,
                               msg |-> "Failed to create output file"])
                        /\ pkgFail' = r.failed
                        /\ u_entry' = u_entry + 1
                        /\ UNCHANGED <<u_pc, outFiles, exitCode>>
                   [] OTHER ->
                        /\ outFiles' = WriteFile(outFiles, path,
                              IF env = "ok" THEN r.buffer ELSE <<>>)
                        /\ report' = Append(report,
                              [gpk |-> u_gpk, entry |-> u_entry,
                               msg |-> "Extracted"])
                        /\ pkgFail' = r.failed
                        /\ u_entry' = u_entry + 1
                        /\ UNCHANGED <<u_pc, exitCode>>
    /\ UNCHANGED <<u_gpk, cipherVars, nameVars, loadVars>>

\* gpk.cpp 252 and filesystem.cpp 29: the package is closed, the next
\* archive is due
EndArchive ==
    /\ u_pc = "gpk_loop" /\ u_entry > Len(gpks[u_gpk].entries)
    /\ u_pc' = "fs_loop"
    /\ u_gpk' = u_gpk + 1
    /\ UNCHANGED <<u_entry, pkgFail, outFiles, report, u_env, exitCode,
                   cipherVars, nameVars, loadVars>>

\* main.cpp 55-61: every archive is done
Completed ==
    /\ u_pc = "fs_loop" /\ u_gpk > Len(gpks)
    /\ u_pc' = "done"
    /\ exitCode' = 0
    /\ report' = Append(report, [gpk |-> 0, entry |-> 0,
                                 msg |-> "Extraction completed successfully!"])
    /\ UNCHANGED <<u_gpk, u_entry, pkgFail, outFiles, u_env,
                   cipherVars, nameVars, loadVars>>

UnpackNext == BeginArchive \/ ExtractEntry \/ EndArchive \/ Completed

InitUnpack == UnpackInit /\ CipherIdle /\ NameIdle

SpecUnpack == InitUnpack /\ [][UnpackNext]_vars

----------------------------------------------------------------------------
\* the entry the last pass of the loop was about
C5_JustDone == u_pc = "gpk_loop" /\ u_entry > 1 /\ u_env # "none"

C5_Last == gpks[u_gpk].entries[u_entry - 1]

C5_InRange(e) ==
    HeaderOffset(e.header) + HeaderComprlen(e.header) <= Len(gpks[u_gpk].file)

C5_Stored(e) ==
    SubSeq(gpks[u_gpk].file, HeaderOffset(e.header) + 1,
           HeaderOffset(e.header) + HeaderComprlen(e.header))

\* C5: whatever happened to the entries before it, the file written for an
\* entry whose range lies inside the archive holds exactly the archive's
\* bytes of that range.
C5_Isolation ==
    (C5_JustDone /\ u_env = "ok" /\ C5_InRange(C5_Last)) =>
        outFiles[<<u_gpk, C5_Last.name>>] = C5_Stored(C5_Last)

\* C6: an entry whose range runs past the end of the archive is not reported
\* as extracted, and no file of comprlen bytes is written for it.
C6_ShortReadReported ==
    (C5_JustDone /\ u_env = "ok" /\ ~C5_InRange(C5_Last)) =>
        /\ report[Len(report)].msg # "Extracted"
        /\ ~(/\ <<u_gpk, C5_Last.name>> \in DOMAIN outFiles
             /\ Len(outFiles[<<u_gpk, C5_Last.name>>])
                  = HeaderComprlen(C5_Last.header))

\* the archives whose package could be opened
C7_Opened(g) ==
    ~\E k \in 1..Len(report) :
        report[k].gpk = g /\ report[k].msg = "Failed to open package for unpacking"

\* the entries a message on the console is about
C7_Processed(g, j) ==
    \E k \in 1..Len(report) :
        /\ report[k].gpk = g /\ report[k].entry = j
        /\ report[k].msg \in {"Extracted", "Failed to create output file"}

\* the run was not stopped for the output directory of a whole archive
C7_ArchiveDirsMade ==
    ~\E k \in 1..Len(report) :
        report[k].entry = 0 /\ report[k].msg = "Error during extraction"

\* C7: at the end of a run, whichever entry's directory or output file
\* failed on the way, every entry of every archive that could be opened has
\* been processed.
C7_RunNotAborted ==
    (u_pc \in {"done", "aborted"} /\ C7_ArchiveDirsMade) =>
        \A g \in 1..Len(gpks) :
            C7_Opened(g) =>
                \A j \in 1..Len(gpks[g].entries) : C7_Processed(g, j)

----------------------------------------------------------------------------
(* The parse loop of GPK::load (gpk.cpp 148-200), one pass at a time, on  *)
(* the index buffers a packer, or a damaged archive, can hold.            *)

\* Bound of the parse check: buffers of 0..MaxParseRecords whole records
MaxParseRecords == 3

\* "a", ":" (sanitises to nothing) and a lone high surrogate (likewise)
ParseNames == LoadNames \cup { <<55296>> }

ParseRecords == { [units |-> u, offset |-> 0, comprlen |-> 3] : u \in ParseNames }

ParseIndexes ==
    UNION { [1..n -> ParseRecords] : n \in 0..MaxParseRecords }

\* how many bytes of its header a cut record keeps
ParseCuts == {0, 1, 20, 21, 22}

\* what follows the whole records: nothing, the sentinel, the sentinel and
\* a record after it, a lone byte, a count without its name bytes, and
\* records cut inside the header
ParseTails ==
    { <<>>, <<0, 0>>, <<7>>, <<2, 0, 97, 0>>,
      <<0, 0>> \o RecordBytes([units |-> <<97>>, offset |-> 0, comprlen |-> 3]) }
    \cup { LE16(Len(u)) \o UnitsBytes(u) \o SubSeq(HeaderBytes(0, 3), 1, k) :
              u \in ParseNames, k \in ParseCuts }

\* gpk.cpp 145-148: the index has been decompressed, the cursor is at 0
ParseInit ==
    /\ \E recs \in ParseIndexes, tail \in ParseTails :
          LET empty == recs = <<>> /\ tail = <<>>
              f == BuildFile(recs, tail,
                             [kind |-> IF empty THEN "size_more" ELSE "good",
                              at |-> 0, to |-> 0])
              r == load(f, TRUE)
          IN  /\ r.ok
              /\ file = f
              /\ compressedData = r.compressedData
              /\ uncompressedData = r.uncompressedData
    /\ entries = <<>> /\ loadError = "none" /\ l_pc = "parse" /\ gpks = <<>>
    /\ pos = 0 /\ p_reads = {}

\* gpk.cpp 150-197: one pass of the loop
ParseStep ==
    /\ l_pc = "parse" /\ pos < Len(uncompressedData)
    /\ \E r \in { ParseIter(uncompressedData, pos) } :
          /\ pos' = r.pos
          /\ entries' = entries \o r.add
          /\ p_reads' = p_reads \cup r.reads
          /\ l_pc' = IF r.stop THEN "close" ELSE "parse"
    /\ UNCHANGED <<file, compressedData, uncompressedData, loadError, gpks,
                   cipherVars, nameVars, unpackVars>>

\* gpk.cpp 150: the loop condition fails
ParseExit ==
    /\ l_pc = "parse" /\ ~(pos < Len(uncompressedData))
    /\ l_pc' = "close"
    /\ UNCHANGED <<file, compressedData, uncompressedData, entries, loadError,
                   gpks, pos, p_reads, cipherVars, nameVars, unpackVars>>

\* gpk.cpp 199-200 and filesystem.cpp 67-69: load returns true and the
\* archive is mounted
ParseReturn ==
    /\ l_pc = "close"
    /\ l_pc' = "done"
    /\ loadError' = "none"
    /\ gpks' = Append(gpks, [file |-> file, entries |-> entries])
    /\ UNCHANGED <<file, compressedData, uncompressedData, entries, pos,
                   p_reads, cipherVars, nameVars, unpackVars>>

ParseNext == ParseStep \/ ParseExit \/ ParseReturn

InitParse == ParseInit /\ CipherIdle /\ NameIdle /\ UnpackIdle

SpecParse == InitParse /\ [][ParseNext]_vars

----------------------------------------------------------------------------
\* the record under the cursor, as the index format lays it out
C11_Avail   == Len(uncompressedData) - pos
C11_Count   == uncompressedData[pos + 1] + 256 * uncompressedData[pos + 2]
C11_NameEnd == pos + 2 + 2 * C11_Count
C11_Name    ==
    cleanFilename(utf16le_to_utf8(SubSeq(uncompressedData, pos + 3, C11_NameEnd),
                                  C11_Count))

C11_Stops == l_pc' = "close" /\ entries' = entries

\* load has returned true and the archive is mounted with the parsed entries
C11_Returned ==
    /\ l_pc = "done" /\ loadError = "none"
    /\ gpks = << [file |-> file, entries |-> entries] >>

\* what a pass of the loop does with the record under the cursor when the
\* entry header is h bytes long, and what follows the loop
C11_Pass(h) ==
    /\ (l_pc = "parse" /\ vars' # vars) =>
          IF C11_Avail < 2 THEN C11_Stops
          ELSE IF C11_Count = 0 THEN C11_Stops
          ELSE IF C11_Avail < 2 + 2 * C11_Count THEN C11_Stops
          ELSE IF C11_Name = <<>>
          THEN /\ entries' = entries
               /\ pos' = C11_NameEnd + h
          ELSE IF C11_Avail < 2 + 2 * C11_Count + h THEN C11_Stops
          ELSE /\ l_pc' = "parse"
               /\ Len(entries') = Len(entries) + 1
               /\ SubSeq(entries', 1, Len(entries)) = entries
               /\ entries'[Len(entries')].name = C11_Name
               /\ SubSeq(entries'[Len(entries')].header, 1, h)
                    = SubSeq(uncompressedData, C11_NameEnd + 1, C11_NameEnd + h)
               /\ pos' = C11_NameEnd + h
    /\ (l_pc = "close" /\ vars' # vars) => C11_Returned'

\* the loop cannot go on for ever: a pass that stays in the loop moves the
\* cursor forward, and the cursor stays within one header of the end
C11_Forward == (l_pc = "parse" /\ l_pc' = "parse" /\ vars' # vars) => pos' > pos

C11_Bounded(h) == pos <= Len(uncompressedData) + h

\* no error is signalled at any point of the parse
C11_NoError == loadError = "none" /\ l_pc \in {"parse", "close", "done"}

\* no byte outside the buffer is read
C11_ReadsInside == p_reads \subseteq 0 .. (Len(uncompressedData) - 1)

\* a buffer that starts with the u16 0x0000 gives no entry
C11_Sentinel ==
    (/\ l_pc = "done"
     /\ Len(uncompressedData) >= 2
     /\ uncompressedData[1] = 0 /\ uncompressedData[2] = 0) =>
        entries = <<>>

\* C11 as stated, with an entry header of 21 bytes: the parse loop ends and
\* load succeeds, reads no byte outside the buffer, stops at a zero count
\* or at a record whose count, name or 21-byte header is cut, appends the
\* records before that in order, and steps exactly 21 bytes past the name
\* of a record whose name sanitises to empty.
C11_AsStated ==
    /\ [](C11_ReadsInside /\ C11_Sentinel /\ C11_NoError /\ C11_Bounded(21))
    /\ [][C11_Pass(21) /\ C11_Forward]_vars

\* C11 with the entry header at its packed size of 23 bytes: for every
\* index buffer the parse loop ends and load succeeds, no byte outside the
\* buffer is read, the loop stops at a zero count or at a record whose
\* count, name or 23-byte header is cut, the records before that are
\* appended in order with duplicates kept, a record whose name sanitises to
\* empty adds no entry and moves the cursor exactly 23 bytes past its name,
\* and a buffer that starts with 0x0000 gives no entry.
C11_SoftStop ==
    /\ [](C11_ReadsInside /\ C11_Sentinel /\ C11_NoError /\ C11_Bounded(23))
    /\ [][C11_Pass(23) /\ C11_Forward]_vars

\* load has returned after a record whose name sanitised to empty, two
\* records of the same name, and a record cut inside its header
C11_Witness ==
    /\ C11_Returned
    /\ Len(uncompressedData) >= 4
    /\ SubSeq(uncompressedData, 1, 4) = <<1, 0, 58, 0>>
    /\ Len(entries) = 2 /\ entries[1].name = entries[2].name
    /\ pos < Len(uncompressedData)
    /\ p_reads # {}

====
